---- MODULE Spec2Model ----
(***************************************************************************)
(* Products, their Colors and the Excel import of src/main.py, over the    *)
(* tables declared in src/models.py.                                       *)
(*                                                                         *)
(* A string is a sequence of tokens; the token " " is a run of whitespace  *)
(* and every other token is a run of non-whitespace characters.            *)
(* A request is served by one slot; the tables are shared by the slots.    *)
(***************************************************************************)
EXTENDS Integers, Sequences, FiniteSets

(* ------------------------------ bounds -------------------------------- *)
\* largest Product id the store hands out
MaxPid == 2
\* largest Color id the store hands out
MaxCid == 2
\* largest number of data rows of an uploaded sheet
MaxRows == 2

\* largest number of requests started in one behaviour of SpecConc
MaxConcRequests == 3

\* largest number of data rows of a sheet uploaded in SpecConc
MaxConcRows == 1

Slots == {1, 2}
Other(r) == 3 - r

(* ------------------------------ strings ------------------------------- *)
SP == " "

RECURSIVE LStrip(_)
LStrip(s) == IF s # <<>> /\ Head(s) = SP THEN LStrip(Tail(s)) ELSE s

RECURSIVE RStrip(_)
RStrip(s) ==
    IF s # <<>> /\ s[Len(s)] = SP THEN RStrip(SubSeq(s, 1, Len(s) - 1)) ELSE s

\* str.strip()
Strip(s) == RStrip(LStrip(s))

\* str.endswith(suffix)
EndsWith(s, suffix) ==
    /\ Len(s) >= Len(suffix)
    /\ SubSeq(s, Len(s) - Len(suffix) + 1, Len(s)) = suffix

Xlsx == <<".xlsx">>

(* --------------------------- uploaded files --------------------------- *)
\* a cell of the parsed sheet: na marks an empty cell (NaN)
Str(s) == [na |-> FALSE, v |-> s]
NaStr == [na |-> TRUE, v |-> <<>>]
Num(n) == [na |-> FALSE, v |-> n]
NaNum == [na |-> TRUE, v |-> 0]

Row(p, c, f, m) == [product |-> p, color |-> c, price |-> f, currency |-> m]

USD == <<"USD">>
EUR == <<"EUR">>

SheetRows ==
    { Row(Str(<<"S">>), Str(<<"R">>), Num(10), Str(USD)),
      Row(Str(<<"S">>), Str(<<"R", SP>>), Num(12), Str(<<SP, "EUR">>)),
      Row(Str(<<SP, "T">>), Str(<<"B">>), Num(10), Str(USD)),
      Row(Str(<<SP>>), Str(<<"R">>), Num(10), Str(USD)),
      Row(NaStr, Str(<<"R">>), NaNum, Str(USD)) }

Sheets == UNION { [1..n -> SheetRows] : n \in 0..MaxRows }

\* the four column names, written without their diacritics
RequiredColumns == { <<"Urun Adi">>, <<"Renk">>, <<"Fiyat">>, <<"Para Birimi">> }

PaddedHeaders ==
    << <<SP, "Urun Adi">>, <<"Renk", SP>>, <<"Fiyat">>, <<SP, "Para Birimi", SP>> >>
NoCurrencyHeaders == << <<"Urun Adi">>, <<"Renk">>, <<"Fiyat">> >>

Unparseable == [parses |-> FALSE, headers |-> <<>>, data |-> <<>>]

Workbook(headers, data) == [parses |-> TRUE, headers |-> headers, data |-> data]

OneRow == << Row(Str(<<"S">>), Str(<<"R">>), Num(10), Str(USD)) >>

File(filename, contents) == [filename |-> filename, contents |-> contents]

Files ==
    { File(<<"f", ".xlsx">>, Workbook(PaddedHeaders, data)) : data \in Sheets }
    \cup { File(<<"f", ".xlsx">>, Workbook(NoCurrencyHeaders, OneRow)),
           File(<<"f", ".xlsx">>, Unparseable),
           File(<<"f", ".csv">>, Workbook(PaddedHeaders, OneRow)),
           File(<<"f", ".xlsx", ".bak">>, Workbook(PaddedHeaders, OneRow)) }

(* ------------------------------- state -------------------------------- *)
VARIABLES
    products,   \* table products: records [id, name]
    colors,     \* table colors: records [id, name, product_id, price, currency]
    nextPid,    \* next Product id the store assigns
    nextCid,    \* next Color id the store assigns
    pc,         \* per slot: position of the handler serving the request
    req,        \* per slot: the request being served (kept until the next one)
    outcome,    \* per slot: how the request ended
    rows,       \* per slot: upload_excel's excel_data after cleaning
    idx,        \* per slot: upload_excel's loop position in rows
    product,    \* per slot: id held by the local variable product (0: None)
    pending,    \* per slot: Colors added to the session and not yet committed
    loaded,     \* per slot: Colors loaded by the delete cascade
    importPid,  \* per slot: nextPid when the running import started
    importCid,  \* per slot: nextCid when the running import started
    served      \* requests started so far (counted in SpecConc only)

vars == << products, colors, nextPid, nextCid, pc, req, outcome, rows, idx,
           product, pending, loaded, importPid, importCid, served >>

locals == << rows, idx, product, pending, loaded, importPid, importCid >>

\* HTTP outcomes
OK == "ok"
NotFound == "NotFound"
BadRequest == "BadRequest"
\* an exception no handler catches: the framework answers 500
ServerError == "ServerError"

UploadPcs == {"upload_lookup", "upload_create", "upload_color", "upload_commit"}

Idle(r) == pc[r] \in {"idle", "done"}

Request(op, id, name, price, currency) ==
    [op |-> op, id |-> id, name |-> name, price |-> price, currency |-> currency,
     parses |-> TRUE, headers |-> <<>>]

UploadRequest(file) ==
    [op |-> "upload_excel", id |-> 0, name |-> file.filename, price |-> 0,
     currency |-> <<>>, parses |-> file.contents.parses,
     headers |-> file.contents.headers]

NoRequest == Request("none", 0, <<>>, 0, <<>>)

(* ---------------------------- the tables ------------------------------ *)
NewProduct(id, name) == [id |-> id, name |-> name]

NewColor(id, name, pid, price, currency) ==
    [id |-> id, name |-> name, product_id |-> pid, price |-> price,
     currency |-> currency]

\* db.query(Product).filter(Product.id == id).first(): the rows found
ProductByIdAny(ps, id) == ps
ProductById(ps, id) == { p \in ps : p.id = id }

\* db.query(Color).filter(Color.id == id).first(): the rows found
ColorById(cs, id) == { c \in cs : c.id = id }

\* db.query(Product).filter(Product.name == name).first(): the rows found
ProductByName(ps, name) == { p \in ps : p.name = name }

\* Product.name is unique: no two rows of ps share a name
NameUnique(ps) == \A p, q \in ps : p.name = q.name => p.id = q.id

\* Color.product_id is a foreign key to products.id
ForeignKeyOff(ps, cs) == TRUE
ForeignKey(ps, cs) == \A c \in cs : \E p \in ps : p.id = c.product_id

\* the store checks the declared foreign keys
ForeignKeysOn == TRUE

\* the session flushes what it holds before it runs a query
AutoFlush == TRUE

\* IntegrityError: the store refuses to leave the Colors cs without their Product
Orphans(ps, cs) == ForeignKeysOn /\ ~ForeignKey(ps, cs)

\* Product.colors with cascade="all, delete": the Colors deleted with Product id
NoCascade(cs, id) == {}
CascadeColors(cs, id) == { c \in cs : c.product_id = id }

\* the Colors a query of slot r sees
Visible(r) == IF AutoFlush THEN colors \cup pending[r] ELSE colors

\* ids the requests in flight may still ask the store for
PidNeed(r) == IF pc[r] \in UploadPcs THEN Len(rows[r]) - idx[r] + 1 ELSE 0
CidNeed(r) ==
    IF pc[r] \in UploadPcs THEN Len(rows[r]) - idx[r] + 1
    ELSE IF pc[r] = "add_color_commit" THEN 1 ELSE 0

\* the store has n ids left for a new request of slot r
PidRoom(r, n) == nextPid + PidNeed(Other(r)) + n - 1 <= MaxPid
CidRoom(r, n) == nextCid + CidNeed(Other(r)) + n - 1 <= MaxCid
Room(r, n) == PidRoom(r, n) /\ CidRoom(r, n)

(* --------------------------- request ends ----------------------------- *)
\* the request of slot r ends with outcome out; its session is closed
Finish(r, out) ==
    /\ pc' = [pc EXCEPT ![r] = "done"]
    /\ outcome' = [outcome EXCEPT ![r] = out]
    /\ rows' = [rows EXCEPT ![r] = <<>>]
    /\ idx' = [idx EXCEPT ![r] = 0]
    /\ product' = [product EXCEPT ![r] = 0]
    /\ pending' = [pending EXCEPT ![r] = {}]
    /\ loaded' = [loaded EXCEPT ![r] = {}]
    /\ importPid' = [importPid EXCEPT ![r] = 0]
    /\ importCid' = [importCid EXCEPT ![r] = 0]

\* the request of slot r goes on at position at
Goto(r, at) ==
    /\ pc' = [pc EXCEPT ![r] = at]
    /\ outcome' = [outcome EXCEPT ![r] = "none"]

Init ==
    /\ products = {}
    /\ colors = {}
    /\ nextPid = 1
    /\ nextCid = 1
    /\ pc = [r \in Slots |-> "idle"]
    /\ req = [r \in Slots |-> NoRequest]
    /\ outcome = [r \in Slots |-> "none"]
    /\ rows = [r \in Slots |-> <<>>]
    /\ idx = [r \in Slots |-> 0]
    /\ product = [r \in Slots |-> 0]
    /\ pending = [r \in Slots |-> {}]
    /\ loaded = [r \in Slots |-> {}]
    /\ importPid = [r \in Slots |-> 0]
    /\ importCid = [r \in Slots |-> 0]
    /\ served = 0

(* ------------------------------ products ------------------------------ *)
\* POST /products/
add_product(r, name) ==
    /\ Idle(r)
    /\ req' = [req EXCEPT ![r] = Request("add_product", 0, name, 0, <<>>)]
    /\ LET ps == products \cup {NewProduct(nextPid, name)} IN
       IF NameUnique(ps)
       THEN /\ products' = ps
            /\ nextPid' = nextPid + 1
            /\ Finish(r, OK)
       ELSE /\ UNCHANGED << products, nextPid >>
            /\ Finish(r, ServerError)
    /\ UNCHANGED << colors, nextCid >>

\* PUT /products/{product_id}: the query
update_product(r, id, name) ==
    /\ Idle(r)
    /\ req' = [req EXCEPT ![r] = Request("update_product", id, name, 0, <<>>)]
    /\ IF ProductById(products, id) = {}
       THEN Finish(r, NotFound)
       ELSE Goto(r, "update_product_commit") /\ UNCHANGED locals
    /\ UNCHANGED << products, colors, nextPid, nextCid >>

\* PUT /products/{product_id}: the assignment and the commit
update_product_commit(r) ==
    /\ pc[r] = "update_product_commit"
    /\ LET old == { p \in products : p.id = req[r].id }
           ps == (products \ old) \cup { NewProduct(p.id, req[r].name) : p \in old }
       IN
       IF old # {} /\ NameUnique(ps)
       THEN products' = ps /\ Finish(r, OK)
       ELSE UNCHANGED products /\ Finish(r, ServerError)
    /\ UNCHANGED << colors, nextPid, nextCid, req >>

\* DELETE /products/{product_id}: the query
delete_product(r, id) ==
    /\ Idle(r)
    /\ req' = [req EXCEPT ![r] = Request("delete_product", id, <<>>, 0, <<>>)]
    /\ IF ProductById(products, id) = {}
       THEN Finish(r, NotFound)
       ELSE Goto(r, "delete_product_cascade") /\ UNCHANGED locals
    /\ UNCHANGED << products, colors, nextPid, nextCid >>

\* DELETE /products/{product_id}: db.delete(product) loads the Colors it owns
delete_product_cascade(r) ==
    /\ pc[r] = "delete_product_cascade"
    /\ loaded' = [loaded EXCEPT ![r] = CascadeColors(colors, req[r].id)]
    /\ Goto(r, "delete_product_commit")
    /\ UNCHANGED << products, colors, nextPid, nextCid, req, rows, idx, product,
                    pending, importPid, importCid >>

\* DELETE /products/{product_id}: the commit deletes the loaded Colors, then the Product
delete_product_commit(r) ==
    /\ pc[r] = "delete_product_commit"
    /\ LET ps == { p \in products : p.id # req[r].id }
           cs == colors \ loaded[r]
       IN
       IF Orphans(ps, cs)
       THEN UNCHANGED << products, colors >> /\ Finish(r, ServerError)
       ELSE products' = ps /\ colors' = cs /\ Finish(r, OK)
    /\ UNCHANGED << nextPid, nextCid, req >>

(* ------------------------------- colors ------------------------------- *)
\* POST /colors/: the query
add_color(r, pid, name, price, currency) ==
    /\ Idle(r)
    /\ req' = [req EXCEPT ![r] = Request("add_color", pid, name, price, currency)]
    /\ IF ProductById(products, pid) = {}
       THEN Finish(r, NotFound)
       ELSE Goto(r, "add_color_commit") /\ UNCHANGED locals
    /\ UNCHANGED << products, colors, nextPid, nextCid >>

\* POST /colors/: the insert and the commit
add_color_commit(r) ==
    /\ pc[r] = "add_color_commit"
    /\ LET new == NewColor(nextCid, req[r].name, req[r].id, req[r].price,
                           req[r].currency)
       IN
       IF Orphans(products, {new})
       THEN UNCHANGED << colors, nextCid >> /\ Finish(r, ServerError)
       ELSE colors' = colors \cup {new} /\ nextCid' = nextCid + 1 /\ Finish(r, OK)
    /\ UNCHANGED << products, nextPid, req >>

\* PUT /colors/{color_id}: the query
update_color(r, id, name, price, currency) ==
    /\ Idle(r)
    /\ req' = [req EXCEPT ![r] = Request("update_color", id, name, price, currency)]
    /\ IF ColorById(colors, id) = {}
       THEN Finish(r, NotFound)
       ELSE Goto(r, "update_color_commit") /\ UNCHANGED locals
    /\ UNCHANGED << products, colors, nextPid, nextCid >>

\* PUT /colors/{color_id}: the assignments and the commit
update_color_commit(r) ==
    /\ pc[r] = "update_color_commit"
    /\ LET old == { c \in colors : c.id = req[r].id } IN
       IF old # {}
       THEN /\ colors' = (colors \ old) \cup
                   { NewColor(c.id, req[r].name, c.product_id, req[r].price,
                              req[r].currency) : c \in old }
            /\ Finish(r, OK)
       ELSE UNCHANGED colors /\ Finish(r, ServerError)
    /\ UNCHANGED << products, nextPid, nextCid, req >>

\* DELETE /colors/{color_id}: the query
delete_color(r, id) ==
    /\ Idle(r)
    /\ req' = [req EXCEPT ![r] = Request("delete_color", id, <<>>, 0, <<>>)]
    /\ IF ColorById(colors, id) = {}
       THEN Finish(r, NotFound)
       ELSE Goto(r, "delete_color_commit") /\ UNCHANGED locals
    /\ UNCHANGED << products, colors, nextPid, nextCid >>

\* DELETE /colors/{color_id}: the delete and the commit
delete_color_commit(r) ==
    /\ pc[r] = "delete_color_commit"
    /\ colors' = { c \in colors : c.id # req[r].id }
    /\ Finish(r, OK)
    /\ UNCHANGED << products, nextPid, nextCid, req >>

(* ---------------------------- upload_excel ---------------------------- *)
\* required_columns.issubset(excel_data.columns), the columns stripped
HasAnyRequiredColumn(headers) ==
    \E i \in 1..Len(headers) : Strip(headers[i]) \in RequiredColumns
HasRequiredColumns(headers) ==
    RequiredColumns \subseteq { Strip(headers[i]) : i \in 1..Len(headers) }

\* the checks that end upload_excel with status 400
Accepted(file) ==
    /\ EndsWith(file.filename, Xlsx)
    /\ file.contents.parses
    /\ HasRequiredColumns(file.contents.headers)

\* excel_data.dropna(subset=[...]): the rows with no empty cell
Complete(row) ==
    ~row.product.na /\ ~row.color.na /\ ~row.price.na /\ ~row.currency.na
DropNa(data) == SelectSeq(data, Complete)

\* .astype(str).str.strip() on the three text columns
StripRowNot(row) ==
    [product |-> row.product.v, color |-> row.color.v, price |-> row.price.v,
     currency |-> row.currency.v]
StripRow(row) ==
    [product |-> Strip(row.product.v), color |-> Strip(row.color.v),
     price |-> row.price.v, currency |-> Strip(row.currency.v)]

\* excel_data as the loop reads it
Clean(data) == [i \in 1..Len(DropNa(data)) |-> StripRow(DropNa(data)[i])]

\* db.query(Color).filter(Color.name == name, Color.product_id == pid).first()
ColorExistsNever(cs, name, pid) == FALSE
ColorExists(cs, name, pid) == \E c \in cs : c.name = name /\ c.product_id = pid

\* the pending Colors, flushed by a query, are refused by the store
FlushFails(r) == AutoFlush /\ Orphans(products, pending[r])

\* POST /upload-excel/: the checks and the cleaning of the sheet
upload_excel(r, file) ==
    /\ Idle(r)
    /\ req' = [req EXCEPT ![r] = UploadRequest(file)]
    /\ IF Accepted(file)
       THEN LET data == Clean(file.contents.data) IN
            /\ rows' = [rows EXCEPT ![r] = data]
            /\ idx' = [idx EXCEPT ![r] = 1]
            /\ importPid' = [importPid EXCEPT ![r] = nextPid]
            /\ importCid' = [importCid EXCEPT ![r] = nextCid]
            /\ Goto(r, IF data = <<>> THEN "upload_commit" ELSE "upload_lookup")
            /\ UNCHANGED << product, pending, loaded >>
       ELSE Finish(r, BadRequest)
    /\ UNCHANGED << products, colors, nextPid, nextCid >>

\* the loop: the Product of the row is looked up by name
upload_lookup(r) ==
    /\ pc[r] = "upload_lookup"
    /\ IF FlushFails(r)
       THEN Finish(r, ServerError)
       ELSE LET found == ProductByName(products, rows[r][idx[r]].product) IN
            /\ product' = [product EXCEPT
                             ![r] = IF found = {} THEN 0
                                    ELSE (CHOOSE p \in found : TRUE).id]
            /\ Goto(r, IF found = {} THEN "upload_create" ELSE "upload_color")
            /\ UNCHANGED << rows, idx, pending, loaded, importPid, importCid >>
    /\ UNCHANGED << products, colors, nextPid, nextCid, req >>

\* the loop: the Product is inserted and the session committed
upload_create(r) ==
    /\ pc[r] = "upload_create"
    /\ LET ps == products \cup {NewProduct(nextPid, rows[r][idx[r]].product)} IN
       IF NameUnique(ps) /\ ~Orphans(ps, pending[r])
       THEN /\ products' = ps
            /\ colors' = colors \cup pending[r]
            /\ nextPid' = nextPid + 1
            /\ product' = [product EXCEPT ![r] = nextPid]
            /\ pending' = [pending EXCEPT ![r] = {}]
            /\ Goto(r, "upload_color")
            /\ UNCHANGED << rows, idx, loaded, importPid, importCid >>
       ELSE /\ UNCHANGED << products, colors, nextPid >>
            /\ Finish(r, ServerError)
    /\ UNCHANGED << nextCid, req >>

\* the loop: the Color of the row is added unless the Product has one of that name
upload_color(r) ==
    /\ pc[r] = "upload_color"
    /\ IF FlushFails(r)
       THEN UNCHANGED nextCid /\ Finish(r, ServerError)
       ELSE LET row == rows[r][idx[r]]
                exists == ColorExists(Visible(r), row.color, product[r])
            IN
            /\ pending' = [pending EXCEPT
                             ![r] = IF exists THEN @
                                    ELSE @ \cup {NewColor(nextCid, row.color,
                                                          product[r], row.price,
                                                          row.currency)}]
            /\ nextCid' = IF exists THEN nextCid ELSE nextCid + 1
            /\ idx' = [idx EXCEPT ![r] = @ + 1]
            /\ Goto(r, IF idx[r] = Len(rows[r]) THEN "upload_commit"
                       ELSE "upload_lookup")
            /\ UNCHANGED << rows, product, loaded, importPid, importCid >>
    /\ UNCHANGED << products, colors, nextPid, req >>

\* the commit after the loop
upload_commit(r) ==
    /\ pc[r] = "upload_commit"
    /\ IF Orphans(products, pending[r])
       THEN UNCHANGED colors /\ Finish(r, ServerError)
       ELSE colors' = colors \cup pending[r] /\ Finish(r, OK)
    /\ UNCHANGED << products, nextPid, nextCid, req >>

(* --------------------------- specifications --------------------------- *)
ProductNames == { <<"S">>, <<"T">> }
ColorNames == { <<"R">>, <<"B">> }
Prices == {10}
Currencies == {USD}
Pids == 1..MaxPid
Cids == 1..MaxCid

\* the ids an upload of file may ask the store for
IdsNeeded(file) ==
    IF Accepted(file) THEN Len(Clean(file.contents.data)) ELSE 0
FilesNeeding == [n \in 0..MaxRows |-> { file \in Files : IdsNeeded(file) = n }]

\* a step of SpecConc that starts a request, and any other step
Counted == served < MaxConcRequests /\ served' = served + 1
NotCounted == UNCHANGED served

\* requests are served one at a time, each to its end; a request that may
\* create rows starts only while the store has ids left for it
Next ==
    \/ NotCounted /\ PidRoom(1, 1) /\ \E name \in ProductNames : add_product(1, name)
    \/ NotCounted /\ \E id \in Pids, name \in ProductNames : update_product(1, id, name)
    \/ NotCounted /\ update_product_commit(1)
    \/ NotCounted /\ \E id \in Pids : delete_product(1, id)
    \/ NotCounted /\ delete_product_cascade(1)
    \/ NotCounted /\ delete_product_commit(1)
    \/ NotCounted /\ CidRoom(1, 1)
          /\ \E pid \in Pids, name \in ColorNames, price \in Prices,
                currency \in Currencies : add_color(1, pid, name, price, currency)
    \/ NotCounted /\ add_color_commit(1)
    \/ NotCounted
          /\ \E id \in Cids, name \in ColorNames, price \in Prices,
                currency \in Currencies : update_color(1, id, name, price, currency)
    \/ NotCounted /\ update_color_commit(1)
    \/ NotCounted /\ \E id \in Cids : delete_color(1, id)
    \/ NotCounted /\ delete_color_commit(1)
    \/ NotCounted
          /\ \E n \in 0..MaxRows :
                Room(1, n) /\ \E file \in FilesNeeding[n] : upload_excel(1, file)
    \/ NotCounted /\ upload_lookup(1)
    \/ NotCounted /\ upload_create(1)
    \/ NotCounted /\ upload_color(1)
    \/ NotCounted /\ upload_commit(1)

Spec == Init /\ [][Next]_vars

\* the files SpecConc uploads: short sheets that pass the checks
ConcFilesNeeding ==
    [n \in 0..MaxConcRows |->
        { file \in FilesNeeding[n] :
            Accepted(file) /\ Len(file.contents.data) <= MaxConcRows }]

\* two slots serve requests at the same time, their steps interleaved
NextConc ==
    \/ \E r \in Slots : Counted /\ PidRoom(r, 1)
          /\ \E name \in ProductNames : add_product(r, name)
    \/ \E r \in Slots : Counted /\ \E id \in Pids : delete_product(r, id)
    \/ \E r \in Slots : NotCounted /\ delete_product_cascade(r)
    \/ \E r \in Slots : NotCounted /\ delete_product_commit(r)
    \/ \E r \in Slots : Counted /\ CidRoom(r, 1)
          /\ \E pid \in Pids, name \in ColorNames, price \in Prices,
                currency \in Currencies : add_color(r, pid, name, price, currency)
    \/ \E r \in Slots : NotCounted /\ add_color_commit(r)
    \/ \E r \in Slots : Counted
          /\ \E n \in 0..MaxConcRows :
                Room(r, n) /\ \E file \in ConcFilesNeeding[n] : upload_excel(r, file)
    \/ \E r \in Slots : NotCounted /\ upload_lookup(r)
    \/ \E r \in Slots : NotCounted /\ upload_create(r)
    \/ \E r \in Slots : NotCounted /\ upload_color(r)
    \/ \E r \in Slots : NotCounted /\ upload_commit(r)

SpecConc == Init /\ [][NextConc]_vars

(* ------------------------------- claims ------------------------------- *)
\* no Product of the Colors cs has two Colors of one name
NoTwin(cs) ==
    \A c, d \in cs : c.product_id = d.product_id /\ c.name = d.name => c = d

\* C1: every step of upload_excel adds a Color only for the row at hand, under the
\* Product of that row, with the trimmed name of that row, and only if the session
\* sees no Color of that name under that Product; so a step that starts with no
\* Product holding two Colors of one name ends so.
C1_ImportAddsNoTwin ==
    [][pc[1] \in UploadPcs =>
        /\ \A c \in pending'[1] \ pending[1] :
              /\ c.name = Strip(rows[1][idx[1]].color)
              /\ c.product_id = product[1]
              /\ ~\E d \in colors \cup pending[1] :
                    d.product_id = c.product_id /\ d.name = c.name
        /\ idx'[1] \in {0, idx[1], idx[1] + 1}
        /\ NoTwin(colors \cup pending[1]) => NoTwin(colors' \cup pending'[1])]_vars

\* an import of two rows naming one Product and one Color has made one Color
C1_Witness ==
    /\ pc[1] = "upload_commit"
    /\ Len(rows[1]) = 2
    /\ rows[1][1].product = rows[1][2].product
    /\ rows[1][1].color = rows[1][2].color
    /\ Cardinality({ c \in colors \cup pending[1] : c.name = rows[1][1].color }) = 1

\* C2: with requests served one at a time, every stored Color has its Product, and
\* delete_product of a stored Product succeeds and leaves neither the Product nor
\* a Color of it.
C2_NoOrphanColor ==
    /\ \A c \in colors : \E p \in products : p.id = c.product_id
    /\ (pc[1] = "done" /\ req[1].op = "delete_product" /\ outcome[1] # NotFound) =>
          /\ outcome[1] = OK
          /\ \A p \in products : p.id # req[1].id
          /\ \A c \in colors : c.product_id # req[1].id

\* delete_product is about to delete a Product that owns Colors
C2_Witness ==
    /\ pc[1] = "delete_product_commit"
    /\ loaded[1] # {}
    /\ Cardinality(products) = 2

\* C3: add_product of a stored name ends with a Conflict and changes no table.
C3_DuplicateNameConflict ==
    [][(Idle(1) /\ req'[1].op = "add_product"
           /\ \E p \in products : p.name = req'[1].name) =>
        /\ outcome'[1] = "Conflict"
        /\ products' = products
        /\ colors' = colors]_vars

\* C4: while an import runs, the tables hold none of its Products or Colors.
C4_ImportCommitsAtEnd ==
    \A r \in Slots :
        pc[r] \in UploadPcs =>
            /\ \A p \in products : p.id < importPid[r]
            /\ \A c \in colors : c.id < importCid[r]

\* C5: with requests interleaved, no two Products share a name and every import
\* that has ended has ended well or with a Conflict.
C5_CreationRaceHandled ==
    /\ \A p, q \in products : p.name = q.name => p = q
    /\ \A r \in Slots :
          (pc[r] = "done" /\ req[r].op = "upload_excel") =>
              outcome[r] \in {OK, "Conflict"}

\* C6: an import makes no Product of empty name and no Color of empty name or
\* empty currency.
C6_ImportDropsBlankRows ==
    \A r \in Slots :
        pc[r] \in UploadPcs =>
            /\ \A p \in products : p.id >= importPid[r] => p.name # <<>>
            /\ \A c \in colors \cup pending[r] :
                  c.id >= importCid[r] => c.name # <<>> /\ c.currency # <<>>

\* the id of the request q resolves to no row of the tables ps, cs
Unresolved(q, ps, cs) ==
    \/ /\ q.op \in {"update_product", "delete_product", "add_color"}
       /\ \A p \in ps : p.id # q.id
    \/ /\ q.op \in {"update_color", "delete_color"}
       /\ \A c \in cs : c.id # q.id

\* C7: a by-id request, or an add_color, whose id resolves to no row ends at once
\* with NotFound and leaves both tables as they were.
C7_UnresolvedIsNotFound ==
    [][(Idle(1) /\ Unresolved(req'[1], products, colors)) =>
        /\ pc'[1] = "done"
        /\ outcome'[1] = NotFound
        /\ products' = products
        /\ colors' = colors]_vars

\* add_color for a Product that is not stored, while others are
C7_Witness ==
    /\ pc[1] = "done"
    /\ req[1].op = "add_color"
    /\ outcome[1] = NotFound
    /\ products # {}
    /\ colors # {}

\* C8: no step of upload_excel removes or changes a stored Color or Product, and
\* none adds a Color whose trimmed name a Color the session sees under the same
\* Product already has: the first occurrence keeps its price and currency.
C8_ImportKeepsStored ==
    [][pc[1] \in UploadPcs =>
        /\ colors \subseteq colors'
        /\ products \subseteq products'
        /\ \A d \in (colors' \cup pending'[1]) \ (colors \cup pending[1]) :
              ~\E c \in colors \cup pending[1] :
                    c.product_id = d.product_id /\ Strip(c.name) = Strip(d.name)]_vars

\* the import meets a row that names a stored Color with another price and skips it
C8_Witness ==
    /\ pc[1] = "upload_commit"
    /\ Len(rows[1]) = 1
    /\ pending[1] = {}
    /\ \E c \in colors :
          /\ c.id < importCid[1]
          /\ c.product_id = product[1]
          /\ c.name = rows[1][1].color
          /\ c.price # rows[1][1].price
          /\ c.currency # rows[1][1].currency

\* the request q is an upload that the checks reject
Rejected(q) ==
    /\ q.op = "upload_excel"
    /\ \/ q.name = <<>>
       \/ q.name[Len(q.name)] # ".xlsx"
       \/ ~q.parses
       \/ \E col \in RequiredColumns :
             \A i \in 1..Len(q.headers) : Strip(q.headers[i]) # col

\* C9: an upload that the checks reject ends at once with a client error and
\* leaves both tables as they were.
C9_RejectedUploadChangesNothing ==
    [][(Idle(1) /\ Rejected(req'[1])) =>
        /\ pc'[1] = "done"
        /\ outcome'[1] = BadRequest
        /\ products' = products
        /\ colors' = colors
        /\ pending'[1] = {}]_vars

\* a sheet without the currency column was rejected while the store held rows
C9_Witness ==
    /\ pc[1] = "done"
    /\ req[1].op = "upload_excel"
    /\ req[1].headers = NoCurrencyHeaders
    /\ outcome[1] = BadRequest
    /\ colors # {}

\* C10: with add_color and delete_product interleaved, once no request is in
\* flight every stored Color has its Product.
C10_RaceLeavesNoOrphan ==
    (\A r \in Slots : Idle(r)) =>
        \A c \in colors : \E p \in products : p.id = c.product_id

\* add_color passed its check, delete_product of the same Product then succeeded,
\* and the insert was refused
C10_Witness ==
    /\ pc[1] = "done" /\ req[1].op = "add_color" /\ outcome[1] = ServerError
    /\ pc[2] = "done" /\ req[2].op = "delete_product" /\ outcome[2] = OK
    /\ req[1].id = req[2].id
====
